---- MODULE Spec2Model ----
(***************************************************************************)
(* Model of backend/routes/generate.py of Artify: the generate handler,    *)
(* the two response normalizers and the streaming proxy.                   *)
(*                                                                         *)
(* Strings that the code inspects character by character are sequences of  *)
(* tokens.  A token is one character of the markdown syntax ("!", "[",     *)
(* "]", "(", ")"), a white-space character (" ", "\n"), a word of prose,   *)
(* or a whole URL that contains no ")" (a data URI or an http(s) URL).     *)
(***************************************************************************)
EXTENDS Integers, Sequences, FiniteSets, TLC

\* ---------------------------------------------------------------- bounds
MaxSegs == 3
MaxParts == 3
MaxChunks == 2
MaxHist == 2
MaxImgs == 2

\* ---------------------------------------------------------------- tokens
D1 == "data:image/png;base64,AAAA"
D2 == "data:image/webp,BBBB"
H1 == "https://h/a.png"
H2 == "http://h/b.gif"

DataUrlTokens == {D1, D2}
HttpUrlTokens == {H1, H2}
Whitespace == {" ", "\n"}

Min(S) == CHOOSE x \in S : \A y \in S : x <= y

\* ------------------------------------------------- regular expressions
NoMatch == [start |-> 0, stop |-> 0, url |-> <<>>]

\* index of the first ")" at or after from, 0 when there is none
FirstClose(s, from) ==
  LET ks == {k \in from..Len(s) : s[k] = ")"}
  IN IF ks = {} THEN 0 ELSE Min(ks)

\* one match of  !\[.*?\]\((PREFIX[^)]+)\)  anchored at index i of s, where
\* Urls is the set of tokens that start with PREFIX and go on after it
MatchAt(s, i, Urls) ==
  IF i + 1 <= Len(s) /\ s[i] = "!" /\ s[i + 1] = "["
  THEN LET js == {j \in (i + 2)..(Len(s) - 3) :
                    /\ \A k \in (i + 2)..(j - 1) : s[k] # "\n"
                    /\ s[j] = "]"
                    /\ s[j + 1] = "("
                    /\ s[j + 2] \in Urls
                    /\ FirstClose(s, j + 3) # 0}
       IN IF js = {} THEN NoMatch
          ELSE LET j == Min(js)
                   c == FirstClose(s, j + 3)
               IN [start |-> i, stop |-> c, url |-> SubSeq(s, j + 2, c - 1)]
  ELSE NoMatch

RECURSIVE FindIterFrom(_, _, _)
FindIterFrom(s, pos, Urls) ==
  IF pos > Len(s) THEN <<>>
  ELSE LET m == MatchAt(s, pos, Urls)
       IN IF m.start # 0
          THEN <<m>> \o FindIterFrom(s, m.stop + 1, Urls)
          ELSE FindIterFrom(s, pos + 1, Urls)

\* re.finditer(pattern, s): the non-overlapping matches, leftmost first
FindIter(s, Urls) == FindIterFrom(s, 1, Urls)

RECURSIVE KeepFrom(_, _, _)
KeepFrom(s, pos, ms) ==
  IF pos > Len(s) THEN <<>>
  ELSE IF \E n \in 1..Len(ms) : ms[n].start <= pos /\ pos <= ms[n].stop
       THEN KeepFrom(s, pos + 1, ms)
       ELSE <<s[pos]>> \o KeepFrom(s, pos + 1, ms)

\* re.sub(pattern, '', s)
data_url_sub(s) == KeepFrom(s, 1, FindIter(s, DataUrlTokens))
http_url_sub(s) == KeepFrom(s, 1, FindIter(s, HttpUrlTokens))

\* str.strip()
Strip(s) ==
  LET ks == {k \in 1..Len(s) : s[k] \notin Whitespace}
  IN IF ks = {} THEN <<>>
     ELSE SubSeq(s, Min(ks), CHOOSE k \in ks : \A y \in ks : y <= k)

\* the part of a data-URI token between "data:" and its first ";" (only D1
\* has a ";"), and the part of a token after "data:"
BeforeSemi(tok) == IF tok = D1 THEN "data:image/png" ELSE tok
AfterData(tok) == IF tok = D1 THEN "image/png;base64,AAAA" ELSE "image/webp,BBBB"

\* re.match(r'data:([^;]+);', data_url), default 'image/jpeg'
DataUrlMime(url) ==
  LET ks == {k \in 1..Len(url) : url[k] = D1}
  IN IF ks = {} THEN <<"image/jpeg">>
     ELSE IF Min(ks) = 1 THEN <<"image/png">>
     ELSE <<AfterData(url[1])>> \o SubSeq(url, 2, Min(ks) - 1)
            \o <<BeforeSemi(url[Min(ks)])>>

\* ------------------------------------------------ fetch_image_as_base64
\* the bytes the remote server holds at a URL
ResourceAt(url) == <<"bytes-of">> \o url

\* base64.b64encode(...).decode('utf-8')
B64Encode(bytes) == <<"b64">> \o bytes

\* content_type.split(';')[0]
SplitSemi0(s) ==
  LET ks == {k \in 1..Len(s) : s[k] = ";"}
  IN IF ks = {} THEN s ELSE SubSeq(s, 1, Min(ks) - 1)

\* the value fetch_image_as_base64 returns for a 200 response
FetchedDataUri(url, headers) ==
  LET content_type == IF headers.has_content_type THEN headers.content_type
                      ELSE <<"image/jpeg">>
      mime_type == Strip(SplitSemi0(content_type))
  IN <<"data:">> \o mime_type \o <<";base64,">> \o B64Encode(ResourceAt(url))

\* the outcomes of one GET of fetch_image_as_base64
ContentTypes == {<<"image/png">>, <<"image/gif", ";", " ", "q=1">>}
FetchOutcomes ==
  {[kind |-> "response", status |-> 200, has_content_type |-> TRUE,
    content_type |-> ct, exc |-> "none"] : ct \in ContentTypes}
  \cup {[kind |-> "response", status |-> st, has_content_type |-> FALSE,
         content_type |-> <<>>, exc |-> "none"] : st \in {200, 404}}
  \cup {[kind |-> "exception", status |-> 0, has_content_type |-> FALSE,
         content_type |-> <<>>, exc |-> e] : e \in {"TimeoutException", "ConnectError"}}

\* -------------------------------------------------- upstream responses
SegKinds == {"See", "and", "sp", "nl", "D1", "D2", "H1", "H2", "open"}

Markup(alt, url) == <<"!", "[", alt, "]", "(", url, ")">>

Seg(k) ==
  CASE k = "See" -> <<"See">>
    [] k = "and" -> <<"and">>
    [] k = "sp" -> <<" ">>
    [] k = "nl" -> <<"\n">>
    [] k = "D1" -> Markup("y", D1)
    [] k = "D2" -> Markup("y", D2)
    [] k = "H1" -> Markup("x", H1)
    [] k = "H2" -> Markup("x", H2)
    [] k = "open" -> <<"!", "[">>

RECURSIVE Flatten(_)
Flatten(segs) == IF segs = <<>> THEN <<>> ELSE Seg(Head(segs)) \o Flatten(Tail(segs))

\* "See ![x](https://h/a.png) and ![y](data:image/png;base64,AAAA)"
ExampleSegs == <<"See", "sp", "H1", "sp", "and", "sp", "D1">>

SegSeqs == UNION {[1..m -> SegKinds] : m \in 0..MaxSegs} \cup {ExampleSegs}

\* parts of a Gemini candidate
RawData == <<"QUJD">>
PartKinds == {"ta", "tb", "X", "Y", "Z", "tX"}
GeminiPart(k) ==
  [has_text |-> k \in {"ta", "tb", "tX"},
   text |-> CASE k \in {"ta", "tX"} -> <<"a">> [] k = "tb" -> <<"b">> [] OTHER -> <<>>,
   has_inline |-> k \in {"X", "Y", "Z", "tX"},
   has_mime |-> k \in {"X", "Z", "tX"},
   mime_type |-> IF k \in {"X", "Z", "tX"} THEN <<"image/png">> ELSE <<>>,
   data |-> IF k = "Z" THEN <<"data:", "image/png", ";base64,">> \o RawData
            ELSE IF k \in {"X", "Y", "tX"} THEN RawData ELSE <<>>]

PartSeqs == UNION {[1..m -> PartKinds] : m \in 0..MaxParts}

\* a response body: undecodable, or a JSON object whose choices/candidates
\* list is empty (list = FALSE) or holds a content string / a parts array
NullBody == [null |-> TRUE, json |-> FALSE, list |-> FALSE, segs |-> <<>>, parts |-> <<>>]
MkBody(j, l, sg, ps) == [null |-> FALSE, json |-> j, list |-> l, segs |-> sg, parts |-> ps]

OpenAIBodies ==
  {MkBody(FALSE, FALSE, <<>>, <<>>), MkBody(TRUE, FALSE, <<>>, <<>>)}
  \cup {MkBody(TRUE, TRUE, sg, <<>>) : sg \in SegSeqs}
GeminiBodies ==
  {MkBody(FALSE, FALSE, <<>>, <<>>), MkBody(TRUE, FALSE, <<>>, <<>>)}
  \cup {MkBody(TRUE, TRUE, <<>>, ps) : ps \in PartSeqs}

Statuses == {200, 201, 404, 500}

\* ------------------------------------------------ process_gemini_response
RECURSIVE GeminiText(_)
GeminiText(parts) ==
  IF parts = <<>> THEN <<>>
  ELSE LET part == GeminiPart(Head(parts))
       IN (IF part.has_text THEN part.text ELSE <<>>) \o GeminiText(Tail(parts))

GeminiImage_noPrefix(part) ==
  [base64 |-> part.data,
   mimeType |-> IF part.has_mime THEN part.mime_type ELSE <<"image/jpeg">>]

GeminiImage(part) ==
  LET mime_type == IF part.has_mime THEN part.mime_type ELSE <<"image/jpeg">>
      b64_data == IF part.data # <<>> /\ Head(part.data) = "data:" THEN part.data
                  ELSE <<"data:">> \o mime_type \o <<";base64,">> \o part.data
  IN [base64 |-> b64_data, mimeType |-> mime_type]

RECURSIVE GeminiImages(_)
GeminiImages(parts) ==
  IF parts = <<>> THEN <<>>
  ELSE LET part == GeminiPart(Head(parts))
       IN (IF part.has_inline THEN <<GeminiImage(part)>> ELSE <<>>)
            \o GeminiImages(Tail(parts))

process_gemini_response(body) ==
  IF ~body.list THEN [text |-> <<>>, images |-> <<>>]
  ELSE [text |-> GeminiText(body.parts), images |-> GeminiImages(body.parts)]

\* ------------------------------------------------ process_openai_response
\* lines 52-60: the images of the data-URI matches
RECURSIVE DataImages(_)
DataImages(ms) ==
  IF ms = <<>> THEN <<>>
  ELSE <<[base64 |-> Head(ms).url, mimeType |-> DataUrlMime(Head(ms).url)]>>
         \o DataImages(Tail(ms))

\* mutation: the final strip() is lost
OpenAIText_noStrip(content) == http_url_sub(data_url_sub(content))

\* lines 75-78: the text left once the image markup is removed
OpenAIText(content) == Strip(http_url_sub(data_url_sub(content)))

\* ------------------------------------------------------ GenerateRequest
\* schemas.py: prompt, images, history_messages, context_images are optional
\* (None and the empty value behave alike in the builders, except for the
\* prompt, kept apart by has_prompt); settings has defaults
HistoryMessages == {[role |-> "user", content |-> <<"hi">>],
                    [role |-> "assistant", content |-> <<"ok">>]}
CurrentImages == {"i1", "i2"}
ContextImages == {"c1", "c2"}
Prompts == {<<>>, <<"draw", " ", "a", " ", "cat">>}
Resolutions == {"1K", "2K", "4K", "8K"}
AspectRatios == {"", "auto", "16:9"}

SeqsUpTo(S, n) == UNION {[1..m -> S] : m \in 0..n}

GenerateRequests ==
  [has_prompt : BOOLEAN, prompt : Prompts,
   images : SeqsUpTo(CurrentImages, MaxImgs),
   history_messages : SeqsUpTo(HistoryMessages, MaxHist),
   context_images : SeqsUpTo(ContextImages, MaxImgs),
   has_resolution : BOOLEAN, resolution : Resolutions,
   has_aspect_ratio : BOOLEAN, aspect_ratio : AspectRatios,
   streaming : BOOLEAN]

\* a field that is absent carries the first value of its set
WellFormedRequest(r) ==
  /\ ~r.has_prompt => r.prompt = <<>>
  /\ ~r.has_resolution => r.resolution = "1K"
  /\ ~r.has_aspect_ratio => r.aspect_ratio = ""

\* schemas.py lines 78-80: GenerateSettings defaults
SettingsResolution(r) == IF r.has_resolution THEN r.resolution ELSE "1K"
SettingsAspectRatio(r) == IF r.has_aspect_ratio THEN r.aspect_ratio ELSE "auto"

\* -------------------------------------------------- the payload builders
TextPart(t) == [type |-> "text", text |-> t, data |-> <<>>, mime_type |-> ""]

\* line 135: {"type": "image_url", "image_url": {"url": "data:image/jpeg;base64,..."}}
ImageUrlPart(img) ==
  [type |-> "image_url", text |-> <<>>,
   data |-> <<"data:image/jpeg;base64,", img>>, mime_type |-> ""]

\* lines 184-189: {"inline_data": {"mime_type": "image/jpeg", "data": ...}}
InlineDataPart(img) ==
  [type |-> "inline_data", text |-> <<>>, data |-> <<img>>, mime_type |-> "image/jpeg"]

\* request.prompt or "Generate image"
PromptText(r) == IF r.prompt = <<>> THEN <<"Generate image">> ELSE r.prompt

OpenAIHistory(h) == [i \in 1..Len(h) |->
                       [role |-> h[i].role, content |-> <<TextPart(h[i].content)>>]]

\* line 171: role = "user" if msg.role == "user" else "model"
GeminiRole(role) == IF role = "user" THEN "user" ELSE "model"

GeminiHistory(h) == [i \in 1..Len(h) |->
                       [role |-> GeminiRole(h[i].role), content |-> <<TextPart(h[i].content)>>]]

OpenAIImageParts(imgs) == [i \in 1..Len(imgs) |-> ImageUrlPart(imgs[i])]
GeminiImageParts(imgs) == [i \in 1..Len(imgs) |-> InlineDataPart(imgs[i])]

\* mutation: the current images are put before the context images
CurrentContent_imagesFirst(prompt_part, context_parts, image_parts) ==
  <<prompt_part>> \o image_parts \o context_parts

\* lines 128-144 and 178-198: the parts of the final user turn
CurrentContent(prompt_part, context_parts, image_parts) ==
  <<prompt_part>> \o context_parts \o image_parts

\* mutation: the table has no entry for 4K
SizeOf_no4K(resolution) ==
  CASE resolution = "1K" -> "1024x1024"
    [] resolution = "2K" -> "2048x2048"
    [] OTHER -> "1024x1024"

\* lines 148 and 154: size_map.get(resolution, "1024x1024")
SizeOf(resolution) ==
  CASE resolution = "1K" -> "1024x1024"
    [] resolution = "2K" -> "2048x2048"
    [] resolution = "4K" -> "4096x4096"
    [] OTHER -> "1024x1024"

\* mutation: the comparison with "auto" is lost
IncludesAspectRatio_nonEmpty(aspect_ratio) == aspect_ratio # ""

\* lines 157 and 209: if aspect_ratio and aspect_ratio != "auto"
IncludesAspectRatio(aspect_ratio) == aspect_ratio # "" /\ aspect_ratio # "auto"

NoPayload == [kind |-> "none", messages |-> <<>>, stream |-> FALSE, size |-> "",
              has_aspect_ratio |-> FALSE, aspect_ratio |-> ""]

build_openai_payload(r) ==
  [kind |-> "openai",
   messages |-> OpenAIHistory(r.history_messages)
                  \o <<[role |-> "user", content |-> CurrentContent(TextPart(PromptText(r)),
                            OpenAIImageParts(r.context_images),
                            OpenAIImageParts(r.images))]>>,
   stream |-> r.streaming,
   size |-> SizeOf(SettingsResolution(r)),
   has_aspect_ratio |-> IncludesAspectRatio(SettingsAspectRatio(r)),
   aspect_ratio |-> IF IncludesAspectRatio(SettingsAspectRatio(r))
                    THEN SettingsAspectRatio(r) ELSE ""]

\* messages holds "contents", size holds generationConfig.imageConfig.imageSize
build_gemini_payload(r) ==
  [kind |-> "gemini",
   messages |-> GeminiHistory(r.history_messages)
                  \o <<[role |-> "user", content |-> CurrentContent(TextPart(PromptText(r)),
                            GeminiImageParts(r.context_images),
                            GeminiImageParts(r.images))]>>,
   stream |-> FALSE,
   size |-> SettingsResolution(r),
   has_aspect_ratio |-> IncludesAspectRatio(SettingsAspectRatio(r)),
   aspect_ratio |-> IF IncludesAspectRatio(SettingsAspectRatio(r))
                    THEN SettingsAspectRatio(r) ELSE ""]

\* ------------------------------ BananaSyncService._download_with_retry
max_retries == 3
base_delay == 1

DownloadUrls == {"https://raw.githubusercontent.com/p.json", "https://linux.do/p.json",
                 "https://example.org/p.json"}
DownloadBodies == {"body1", "body2"}

\* lines 78-85: the Referer the request carries
RefererOf(url) ==
  CASE url = "https://linux.do/p.json" -> "https://linux.do/"
    [] url = "https://raw.githubusercontent.com/p.json" -> "https://github.com/"
    [] OTHER -> ""

\* the outcomes of one GET: an answer (raise_for_status raises on 4xx/5xx)
\* or an exception of the client
DownloadOutcomes ==
  {[kind |-> "response", status |-> 200, content |-> c] : c \in DownloadBodies}
  \cup {[kind |-> "response", status |-> 404, content |-> ""],
        [kind |-> "response", status |-> 500, content |-> ""],
        [kind |-> "exception", status |-> 0, content |-> ""]}

\* lines 93-95: the GET returned and raise_for_status() did not raise
DownloadOk(outcome) == outcome.kind = "response" /\ outcome.status \in 200..299

\* mutation: the delay does not grow
BackoffDelay_constant(attempt) == base_delay

\* line 97: delay = self.base_delay * (2 ** attempt)
BackoffDelay(attempt) == base_delay * (2 ^ attempt)

\* line 103: if attempt < self.max_retries - 1
SleepsAfter(attempt) == attempt < max_retries - 1

NoDownload == [returned |-> FALSE, none |-> TRUE, content |-> ""]

\* ------------------------------------------- banana_prompts and sync
MaxId == 2
MaxRuns == 2
MaxItems == 2

None == "None"
Titles == {"A", "B"}

\* line 181: the title of an item that has none
DefaultTitle == "untitled"

\* the values of BananaPrompt.image
Images == {None, "img"}

PromptRow(title, image, source) == [title |-> title, image |-> image, source |-> source]

\* the items of the fetched JSON: objects with a title, an object without
\* one, and a value that is no object
JsonItems ==
  {[is_object |-> TRUE, has_title |-> TRUE, title |-> t] : t \in Titles}
  \cup {[is_object |-> TRUE, has_title |-> FALSE, title |-> None],
        [is_object |-> FALSE, has_title |-> FALSE, title |-> None]}

\* what _fetch_github_data gives: None, the decoded JSON, or an exception
\* of content.decode
FetchResults ==
  {[kind |-> "none", data |-> <<>>], [kind |-> "raises", data |-> <<>>]}
  \cup {[kind |-> "data", data |-> d] : d \in SeqsUpTo(JsonItems, MaxItems)}

\* line 181: item.get("title", "无标题")
ItemTitle(item) == IF item.has_title THEN item.title ELSE DefaultTitle

MaxOf(S) == IF S = {} THEN 0 ELSE CHOOSE m \in S : \A x \in S : x <= m

\* lines 170-172: the rows with source "github"
GithubIds(table) == {id \in DOMAIN table : table[id].source = "github"}

\* line 173: {p.title: p for p in existing_prompts}; of several rows with
\* one title the dict keeps the one the query returned last, and the query
\* has no ORDER BY
ExistingTitleMaps(table) ==
  LET ts == {table[id].title : id \in GithubIds(table)}
  IN  {f \in [ts -> GithubIds(table)] : \A t \in ts : table[f[t]].title = t}

\* line 181: item.get raises on the first item that is no object
FirstBadItem(data) ==
  IF \E i \in 1..Len(data) : ~data[i].is_object
  THEN CHOOSE i \in 1..Len(data) :
         /\ ~data[i].is_object
         /\ \A j \in 1..(i - 1) : data[j].is_object
  ELSE Len(data) + 1

LoopRaises(data) == FirstBadItem(data) <= Len(data)

\* the items the loop of line 180 went through
Processed(data) == SubSeq(data, 1, FirstBadItem(data) - 1)

\* line 182
JsonTitles(data) == {ItemTitle(data[i]) : i \in 1..Len(data)}

\* lines 185-202: the items a row is added for, in order
NewItems(data, existing_titles) ==
  LET IsNew(item) == ItemTitle(item) \notin DOMAIN existing_titles
  IN  SelectSeq(Processed(data), IsNew)

\* lines 190-201 and the flush: one row per new item, ids following the
\* largest rowid
Inserted(table, new) ==
  LET m == MaxOf(DOMAIN table)
  IN  [id \in DOMAIN table \cup (m + 1)..(m + Len(new)) |->
         IF id \in DOMAIN table THEN table[id]
         ELSE PromptRow(ItemTitle(new[id - m]), None, "github")]

\* lines 205-208: the rows of the dict whose title is not in the JSON
StaleIds(existing_titles, json_titles) ==
  {existing_titles[t] : t \in DOMAIN existing_titles \ json_titles}

Removed(table, ids) == [id \in DOMAIN table \ ids |-> table[id]]

\* line 214
TotalCount(existing_titles, deleted_count, new_count) ==
  Cardinality(DOMAIN existing_titles) - deleted_count + new_count

\* mutation: the switch is not looked at
SyncAllowed_always(sync_enabled) == TRUE

\* line 142: if not settings.BANANA_SYNC_ENABLED: return
SyncAllowed(sync_enabled) == sync_enabled

NoSyncResult == [returned |-> FALSE, success |-> FALSE, count |-> 0]
SyncResult(success, count) == [returned |-> TRUE, success |-> success, count |-> count]

\* a banana_sync_log row
SyncLogRow(status, count) == [status |-> status, count |-> count]

\* lines 160-162, 215-216, 233-235: the last row is the run's own
SetLastLog(logs, status, count) ==
  [logs EXCEPT ![Len(logs)] = SyncLogRow(status, count)]

NoOp == [op |-> "none", id |-> 0, code |-> 0]
Op(op, id, code) == [op |-> op, id |-> id, code |-> code]

\* mutation: the source is not looked at
MayEdit_any(source) == TRUE

\* routes/banana.py lines 106 and 159: if prompt.source != "custom": 403
MayEdit(source) == source = "custom"

\* BananaPromptUpdate with exclude_unset: the fields that were sent
PromptUpdates ==
  [has_title : BOOLEAN, title : Titles, has_image : BOOLEAN, image : Images]

\* routes/banana.py lines 110-112
ApplyUpdate(row, data) ==
  [row EXCEPT !.title = IF data.has_title THEN data.title ELSE @,
              !.image = IF data.has_image THEN data.image ELSE @]

\* --------------------------------------- providers and xhs_providers
MaxProviders == 2

ProviderNames == {"n1", "n2"}
ProviderTypes == {"openai", "gemini"}

NoAnswer == [op |-> "none", id |-> 0, code |-> 0]

\* lines 31 and 61-64: a row with this name, other than the row skipped
NameTaken(table, name, skip) ==
  \E id \in DOMAIN table : id # skip /\ table[id].name = name

\* ProviderUpdate: None stands for a field that is not sent or null
ProviderUpdates == [name : ProviderNames \cup {None}, type : ProviderTypes \cup {None}]

\* providers.py lines 61-64: set the fields that are not None
ApplyProviderUpdate(row, data) ==
  [row EXCEPT !.name = IF data.name # None THEN data.name ELSE @,
              !.type = IF data.type # None THEN data.type ELSE @]

\* ------------------------------------------------------------ the state
VARIABLES
  request,      \* the GenerateRequest: provider_id, settings.streaming
  pc,           \* position of the handler / of the stream generator
  provider,     \* type of the Provider row found, "none" before / without one
  mode,         \* "none", "stream" (StreamingResponse) or "buffered"
  normalizer,   \* the normalizer the decoded body was handed to, or "none"
  transport,    \* what the POST did: "none", "response" or the httpx exception
  response,     \* status and body of the upstream answer to the POST
  raised,       \* the exception that left the handler or the generator
  result,       \* the dict the handler returned: text, images
  matches,      \* the remote-URL matches of the content (finditer, line 63)
  fetched,      \* number of remote-URL matches already handled
  fetchLog,     \* the outcome of the GET of each match handled so far
  postCount,    \* upstream POSTs issued for this request
  getCount,     \* GETs issued, one counter per remote-URL match
  upstream,     \* the streaming connection: "none", "open", "closed"
  incoming,     \* chunks the upstream has still to send on the stream
  held,         \* the chunk the generator holds between read and yield
  received,     \* chunks the generator has read from the upstream, in order
  delivered,    \* chunks handed to the caller, in order
  caller,       \* "connected" or "gone"
  breq,         \* the GenerateRequest handed to a payload builder
  bpc,          \* "idle", "start", or the builder that has run
  payload,      \* the payload built
  dlArgs,       \* _download_with_retry: url, use_proxy
  dlpc,         \* "idle", "get", "sleep", "done"
  attempt,      \* the loop variable of line 72
  dlLog,        \* the outcome of each GET made so far
  slept,        \* the delays of the asyncio.sleep calls made so far
  dlResult,     \* what _download_with_retry returned
  prompts,      \* banana_prompts: id -> row
  syncLogs,     \* banana_sync_log rows, oldest first
  spc,          \* sync: "idle" or "fetching"
  runs,         \* sync runs started so far
  syncData,     \* what _fetch_github_data gave the last run
  syncRet,      \* what the last run of sync returned
  fetchCalls,   \* calls of _fetch_github_data so far
  enabled,      \* settings.BANANA_SYNC_ENABLED
  lastOp,       \* the operation of the last step on banana_prompts and its answer
  providers,    \* providers: id -> row
  xhsProviders, \* xhs_providers: id -> row
  answer        \* the provider route called last and its answer

vars == <<request, pc, provider, mode, normalizer, transport, response, raised,
          result, matches, fetched, fetchLog, postCount, getCount, upstream,
          incoming, held, received, delivered, caller,
          breq, bpc, payload, dlArgs, dlpc, attempt, dlLog, slept, dlResult,
          prompts, syncLogs, spc, runs, syncData, syncRet, fetchCalls, enabled,
          lastOp, providers, xhsProviders, answer>>

generateVars == <<request, pc, provider, mode, normalizer, transport, response,
                  raised, result, matches, fetched, fetchLog, postCount, getCount,
                  upstream, incoming, held, received, delivered, caller>>
buildVars == <<breq, bpc, payload>>
downloadVars == <<dlArgs, dlpc, attempt, dlLog, slept, dlResult>>
bananaVars == <<prompts, syncLogs, spc, runs, syncData, syncRet, fetchCalls, enabled,
                lastOp>>
providerVars == <<providers, xhsProviders, answer>>

\* what the actions of one operation leave alone
nonGenerateVars == <<buildVars, downloadVars, bananaVars, providerVars>>
nonBuildVars == <<generateVars, downloadVars, bananaVars, providerVars>>
nonDownloadVars == <<generateVars, buildVars, bananaVars, providerVars>>
nonBananaVars == <<generateVars, buildVars, downloadVars, providerVars>>
nonProviderVars == <<generateVars, buildVars, downloadVars, bananaVars>>

streamVars == <<upstream, incoming, held, received, delivered, caller>>
normVars == <<result, matches, fetched, fetchLog, getCount>>

\* the providers table: id -> type ('gemini' or 'openai', models.py:30)
ProviderTable == (1 :> "openai") @@ (2 :> "gemini")
ProviderIds == {1, 2, 3}

NoResponse == [status |-> 0, body |-> NullBody]
NotRaised == [exc |-> "none", class |-> "none", status_code |-> 0,
              detail |-> "", body |-> NullBody]
NoResult == [returned |-> FALSE, text |-> <<>>, images |-> <<>>]

\* raise HTTPException(status_code, detail); class names the raise site in
\* the error taxonomy, body is response.text when that is the detail
HTTPException(class, code, detail, body) ==
  [exc |-> "HTTPException", class |-> class, status_code |-> code,
   detail |-> detail, body |-> body]

\* an exception other than HTTPException: if nothing catches it the server
\* answers 500 Internal Server Error
Exception(name) ==
  [exc |-> name, class |-> "Unhandled", status_code |-> 500,
   detail |-> "Internal Server Error", body |-> NullBody]

\* httpx.TimeoutException is a subclass of httpx.RequestError
TransportErrors == {"TimeoutException", "ConnectError"}
RequestErrors == {"TimeoutException", "ConnectError"}

\* no payload builder is running
IdleBuild ==
  /\ breq = CHOOSE r \in GenerateRequests : ~r.has_prompt /\ r.images = <<>>
  /\ bpc = "idle"
  /\ payload = NoPayload

\* no sync is running and banana_prompts is empty
IdleBanana ==
  /\ prompts = <<>>
  /\ syncLogs = <<>>
  /\ spc = "idle"
  /\ runs = 0
  /\ syncData = <<>>
  /\ syncRet = NoSyncResult
  /\ fetchCalls = 0
  /\ enabled = TRUE
  /\ lastOp = NoOp

\* no provider route has been called and both tables are empty
IdleProviders ==
  /\ providers = <<>>
  /\ xhsProviders = <<>>
  /\ answer = NoAnswer

\* no download is running
IdleDownload ==
  /\ dlArgs = [url |-> "", use_proxy |-> FALSE]
  /\ dlpc = "idle"
  /\ attempt = 0
  /\ dlLog = <<>>
  /\ slept = <<>>
  /\ dlResult = NoDownload

\* the handler has touched nothing yet
GenerateFresh ==
  /\ provider = "none"
  /\ mode = "none"
  /\ normalizer = "none"
  /\ transport = "none"
  /\ response = NoResponse
  /\ raised = NotRaised
  /\ result = NoResult
  /\ matches = <<>>
  /\ fetched = 0
  /\ fetchLog = <<>>
  /\ postCount = 0
  /\ getCount = <<>>
  /\ upstream = "none"
  /\ incoming = <<>>
  /\ held = <<>>
  /\ received = <<>>
  /\ delivered = <<>>
  /\ caller = "connected"

\* no generate request is being served
IdleGenerate ==
  /\ request = [provider_id |-> 1, streaming |-> FALSE]
  /\ pc = "idle"
  /\ GenerateFresh

Init ==
  /\ request \in [provider_id : ProviderIds, streaming : BOOLEAN]
  /\ pc = "resolve"
  /\ GenerateFresh
  /\ IdleBuild
  /\ IdleDownload
  /\ IdleBanana
  /\ IdleProviders

\* mutation: the filter on the id is lost
LookupProvider_unfiltered(id) == ProviderTable[1]

\* ------------------------------------------------- generate, lines 233-252
\* db.query(Provider).filter(Provider.id == provider_id).first()
LookupProvider(id) ==
  IF id \in DOMAIN ProviderTable THEN ProviderTable[id] ELSE "none"

\* mutation: the streaming flag alone decides
StreamChosen_flagOnly(type, streaming) == streaming

\* lines 239 and 248: the StreamingResponse branch
StreamChosen(type, streaming) == type = "openai" /\ streaming

Resolve ==
  /\ UNCHANGED nonGenerateVars
  /\ pc = "resolve"
  /\ provider' = LookupProvider(request.provider_id)
  /\ IF provider' = "none"
     THEN /\ raised' = HTTPException("ProviderNotFound", 404, "provider not found", NullBody)
          /\ pc' = "done"
          /\ mode' = mode
     ELSE /\ IF StreamChosen(provider', request.streaming)
             THEN mode' = "stream" /\ pc' = "stream_open"
             ELSE mode' = "buffered" /\ pc' = "post"
          /\ raised' = raised
  /\ UNCHANGED <<request, normalizer, transport, response, postCount, normVars,
                 streamVars>>

\* ------------------------------------------------- generate, lines 254-285
BodiesOf(type) == IF type = "openai" THEN OpenAIBodies ELSE GeminiBodies

\* mutation: the two except clauses in the other order
ExceptClauses_swapped(e) ==
  IF e.exc \in RequestErrors
  THEN HTTPException("UpstreamUnreachable", 502, "request failed", NullBody)
  ELSE IF e.exc = "TimeoutException"
  THEN HTTPException("UpstreamTimeout", 504, "request timed out", NullBody)
  ELSE e

\* the except clauses of lines 282-285, tried in their order, applied to an
\* exception raised inside the try block; what they do not catch propagates
ExceptClauses(e) ==
  IF e.exc = "TimeoutException"
  THEN HTTPException("UpstreamTimeout", 504, "request timed out", NullBody)
  ELSE IF e.exc \in RequestErrors
  THEN HTTPException("UpstreamUnreachable", 502, "request failed", NullBody)
  ELSE e

\* the POST raises httpx.TimeoutException or another httpx.RequestError
PostFails ==
  /\ UNCHANGED nonGenerateVars
  /\ pc = "post"
  /\ \E exc \in TransportErrors :
       /\ transport' = exc
       /\ raised' = ExceptClauses(Exception(exc))
  /\ postCount' = postCount + 1
  /\ pc' = "done"
  /\ UNCHANGED <<request, provider, mode, normalizer, response, normVars, streamVars>>

\* lines 256 / 273: the status test made on the upstream response
IsErrorStatus(status) == status # 200

\* mutation: the guard on an absent or empty list is lost
ReturnsEmpty_never(body) == FALSE

\* lines 40-41 and 90-91: choices / candidates (or the message / content in
\* its first entry) absent or empty, the normalizer returns the empty result
ReturnsEmpty(body) == ~body.list

\* the POST is answered: status test, JSON decoding, normalizer
PostAnswered ==
  /\ UNCHANGED nonGenerateVars
  /\ pc = "post"
  /\ \E st \in Statuses, body \in BodiesOf(provider) :
       /\ response' = [status |-> st, body |-> body]
       /\ IF IsErrorStatus(st)
          THEN /\ raised' = ExceptClauses(
                              HTTPException("UpstreamHTTPError", st, "response.text", body))
               /\ pc' = "done"
               /\ UNCHANGED <<normalizer, normVars>>
          ELSE IF ~body.json
          THEN /\ raised' = ExceptClauses(Exception("JSONDecodeError"))
               /\ pc' = "done"
               /\ UNCHANGED <<normalizer, normVars>>
          ELSE /\ normalizer' = IF provider = "openai" THEN "openai" ELSE "gemini"
               /\ IF ReturnsEmpty(body)
                  THEN /\ result' = [returned |-> TRUE, text |-> <<>>, images |-> <<>>]
                       /\ raised' = raised
                       /\ pc' = "done"
                       /\ UNCHANGED <<matches, fetched, fetchLog, getCount>>
                  ELSE IF ~body.list
                  \* data["choices"][0] / data["candidates"][0] on a missing list
                  THEN /\ raised' = ExceptClauses(Exception("KeyError"))
                       /\ pc' = "done"
                       /\ UNCHANGED normVars
                  ELSE IF provider = "openai"
                  THEN LET content == Flatten(body.segs)
                       IN /\ result' = [returned |-> FALSE, text |-> <<>>,
                                        images |-> DataImages(FindIter(content, DataUrlTokens))]
                          /\ matches' = FindIter(content, HttpUrlTokens)
                          /\ fetched' = 0
                          /\ fetchLog' = <<>>
                          /\ getCount' = [n \in 1..Len(matches') |-> 0]
                          /\ raised' = raised
                          /\ pc' = "fetch"
                  ELSE /\ LET r == process_gemini_response(body)
                          IN result' = [returned |-> TRUE, text |-> r.text, images |-> r.images]
                       /\ raised' = raised
                       /\ pc' = "done"
                       /\ UNCHANGED <<matches, fetched, fetchLog, getCount>>
  /\ transport' = "response"
  /\ postCount' = postCount + 1
  /\ UNCHANGED <<request, provider, mode, streamVars>>

\* ---------------------------------- process_openai_response, lines 63-73
\* lines 24-30 and 67: the images one GET contributes
FetchAppends(url, outcome) ==
  IF outcome.kind = "response" /\ outcome.status = 200
  THEN <<[base64 |-> FetchedDataUri(url, outcome), mimeType |-> <<"image/jpeg">>]>>
  ELSE <<>>

\* mutation: insert(0, ...) instead of append
AppendImages_front(images, new) == new \o images

\* line 68: result["images"].append(...)
AppendImages(images, new) == images \o new

\* mutation: except httpx.ConnectError instead of except Exception
FetchCatches_connectOnly(exc) == exc = "ConnectError"

\* line 72: except Exception catches every exception of the GET
FetchCatches(exc) == exc \in TransportErrors \cup {"Exception"}

\* mutation: a failed GET is tried again
NextFetch_retry(n, outcome) ==
  IF outcome.kind = "response" /\ outcome.status = 200 THEN n + 1 ELSE n

\* line 63: the loop goes on to the next match whatever the outcome
NextFetch(n, outcome) == n + 1

FetchImage ==
  /\ UNCHANGED nonGenerateVars
  /\ pc = "fetch"
  /\ fetched < Len(matches)
  /\ \E outcome \in FetchOutcomes :
       /\ fetchLog' = Append(fetchLog, outcome)
       /\ fetched' = NextFetch(fetched, outcome)
       /\ IF outcome.kind = "exception" /\ ~FetchCatches(outcome.exc)
          THEN /\ raised' = ExceptClauses(Exception(outcome.exc))
               /\ pc' = "done"
               /\ result' = result
          ELSE /\ result' = [result EXCEPT !.images =
                               AppendImages(@, FetchAppends(matches[fetched + 1].url, outcome))]
               /\ UNCHANGED <<raised, pc>>
  /\ getCount' = [getCount EXCEPT ![fetched + 1] = @ + 1]
  /\ UNCHANGED <<request, provider, mode, normalizer, transport, response,
                 matches, postCount, streamVars>>

\* lines 75-80
FinishOpenAI ==
  /\ UNCHANGED nonGenerateVars
  /\ pc = "fetch"
  /\ fetched = Len(matches)
  /\ result' = [result EXCEPT !.returned = TRUE,
                              !.text = OpenAIText(Flatten(response.body.segs))]
  /\ pc' = "done"
  /\ UNCHANGED <<request, provider, mode, normalizer, transport, response, raised,
                 matches, fetched, fetchLog, postCount, getCount, streamVars>>

\* ------------------------------------------- stream_proxy, lines 218-223
\* The handler has returned StreamingResponse(stream_proxy(...)): the caller
\* is answered 200 text/event-stream, and the generator runs from then on,
\* outside the try block of the handler.
Chunks == {"c1", "c2"}
ChunkSeqs == UNION {[1..m -> Chunks] : m \in 0..MaxChunks}

\* mutation: the response is opened without async with and never closed
CloseOnExit_leak(conn) == conn

\* lines 220-221: leaving the two async with blocks closes the response and
\* the client, however the generator is left
CloseOnExit(conn) == IF conn = "open" THEN "closed" ELSE conn

\* mutation: the chunk read is yielded twice
YieldChunk_twice(sent, chunk) == sent \o chunk \o chunk

\* line 223: yield chunk, the bytes as they were read
YieldChunk(sent, chunk) == sent \o chunk

\* client.stream("POST", ...) raises: the exception leaves the generator
StreamOpenFails ==
  /\ UNCHANGED nonGenerateVars
  /\ pc = "stream_open"
  /\ caller = "connected"
  /\ \E exc \in TransportErrors :
       /\ transport' = exc
       /\ raised' = Exception(exc)
  /\ postCount' = postCount + 1
  /\ pc' = "done"
  /\ UNCHANGED <<request, provider, mode, normalizer, response, normVars, streamVars>>

\* client.stream("POST", ...) is answered; the status is not looked at
StreamOpened ==
  /\ UNCHANGED nonGenerateVars
  /\ pc = "stream_open"
  /\ caller = "connected"
  /\ \E st \in Statuses, chunks \in ChunkSeqs :
       /\ response' = [status |-> st, body |-> NullBody]
       /\ incoming' = chunks
  /\ upstream' = "open"
  /\ postCount' = postCount + 1
  /\ pc' = "relay"
  /\ transport' = "response"
  /\ UNCHANGED <<request, provider, mode, normalizer, raised, normVars,
                 held, received, delivered, caller>>

\* async for chunk in response.aiter_bytes(): the next chunk arrives
RelayRead ==
  /\ UNCHANGED nonGenerateVars
  /\ pc = "relay"
  /\ caller = "connected"
  /\ incoming # <<>>
  /\ held' = <<Head(incoming)>>
  /\ received' = Append(received, Head(incoming))
  /\ incoming' = Tail(incoming)
  /\ pc' = "yield"
  /\ UNCHANGED <<request, provider, mode, normalizer, transport, response, raised, normVars,
                 postCount, upstream, delivered, caller>>

\* yield chunk: the chunk is sent to the caller
RelayYield ==
  /\ UNCHANGED nonGenerateVars
  /\ pc = "yield"
  /\ caller = "connected"
  /\ delivered' = YieldChunk(delivered, held)
  /\ held' = <<>>
  /\ pc' = "relay"
  /\ UNCHANGED <<request, provider, mode, normalizer, transport, response, raised, normVars,
                 postCount, upstream, incoming, received, caller>>

\* the upstream ends its body: the loop ends and both async with blocks exit
RelayEnd ==
  /\ UNCHANGED nonGenerateVars
  /\ pc = "relay"
  /\ caller = "connected"
  /\ incoming = <<>>
  /\ upstream' = CloseOnExit(upstream)
  /\ pc' = "done"
  /\ UNCHANGED <<request, provider, mode, normalizer, transport, response, raised, normVars,
                 postCount, incoming, held, received, delivered, caller>>

\* the upstream breaks mid-stream: aiter_bytes raises, the async with blocks
\* exit and the exception leaves the generator
UpstreamBreaks ==
  /\ UNCHANGED nonGenerateVars
  /\ pc = "relay"
  /\ caller = "connected"
  /\ incoming # <<>>
  /\ raised' = Exception("ReadError")
  /\ upstream' = CloseOnExit(upstream)
  /\ pc' = "done"
  /\ UNCHANGED <<request, provider, mode, normalizer, transport, response, normVars,
                 postCount, incoming, held, received, delivered, caller>>

\* the caller goes away while the stream is being served
CallerDisconnects ==
  /\ UNCHANGED nonGenerateVars
  /\ pc \in {"stream_open", "relay", "yield"}
  /\ caller = "connected"
  /\ caller' = "gone"
  /\ UNCHANGED <<request, pc, provider, mode, normalizer, transport, response, raised,
                 normVars, postCount, upstream, incoming, held, received, delivered>>

\* the server cancels the response task of a caller that has gone: the
\* generator is closed at the point where it is suspended, which exits its
\* async with blocks
RelayCancelled ==
  /\ UNCHANGED nonGenerateVars
  /\ pc \in {"stream_open", "relay", "yield"}
  /\ caller = "gone"
  /\ upstream' = CloseOnExit(upstream)
  /\ held' = <<>>
  /\ pc' = "done"
  /\ UNCHANGED <<request, provider, mode, normalizer, transport, response, raised, normVars,
                 postCount, incoming, received, delivered, caller>>

Next ==
  \/ Resolve
  \/ PostFails
  \/ PostAnswered
  \/ FetchImage
  \/ FinishOpenAI
  \/ StreamOpenFails
  \/ StreamOpened
  \/ RelayRead
  \/ RelayYield
  \/ RelayEnd
  \/ UpstreamBreaks
  \/ CallerDisconnects
  \/ RelayCancelled

Spec == Init /\ [][Next]_vars

\* ------------------------------------ the payload builders as operations
InitPayload ==
  /\ IdleGenerate
  /\ IdleDownload
  /\ IdleBanana
  /\ IdleProviders
  /\ breq \in {r \in GenerateRequests : WellFormedRequest(r)}
  /\ bpc = "start"
  /\ payload = NoPayload

\* generate, line 241: payload = build_openai_payload(request, provider)
BuildOpenAIPayload ==
  /\ bpc = "start"
  /\ payload' = build_openai_payload(breq)
  /\ bpc' = "openai"
  /\ UNCHANGED <<breq, nonBuildVars>>

\* generate, line 267: payload = build_gemini_payload(request, provider)
BuildGeminiPayload ==
  /\ bpc = "start"
  /\ payload' = build_gemini_payload(breq)
  /\ bpc' = "gemini"
  /\ UNCHANGED <<breq, nonBuildVars>>

NextPayload ==
  \/ BuildOpenAIPayload
  \/ BuildGeminiPayload

SpecPayload == InitPayload /\ [][NextPayload]_vars

\* --------------------------------- _download_with_retry as a process
InitDownload ==
  /\ IdleGenerate
  /\ IdleBuild
  /\ IdleBanana
  /\ IdleProviders
  /\ dlArgs \in [url : DownloadUrls, use_proxy : BOOLEAN]
  /\ dlpc = "get"
  /\ attempt = 0
  /\ dlLog = <<>>
  /\ slept = <<>>
  /\ dlResult = NoDownload

\* lines 72-103: one pass of the loop body up to its first await after
\* the GET: the answer is returned, or the except clause runs
DownloadGet ==
  /\ dlpc = "get"
  /\ attempt < max_retries
  /\ \E outcome \in DownloadOutcomes :
       /\ dlLog' = Append(dlLog, [outcome |-> outcome, referer |-> RefererOf(dlArgs.url),
                                  proxied |-> dlArgs.use_proxy])
       /\ IF DownloadOk(outcome)
          THEN /\ dlResult' = [returned |-> TRUE, none |-> FALSE, content |-> outcome.content]
               /\ dlpc' = "done"
               /\ attempt' = attempt
          ELSE IF SleepsAfter(attempt)
          THEN /\ dlpc' = "sleep"
               /\ UNCHANGED <<dlResult, attempt>>
          ELSE IF attempt + 1 < max_retries
          THEN /\ dlpc' = "get"
               /\ attempt' = attempt + 1
               /\ UNCHANGED dlResult
          ELSE /\ dlResult' = [returned |-> TRUE, none |-> TRUE, content |-> ""]
               /\ dlpc' = "done"
               /\ attempt' = attempt + 1
  /\ UNCHANGED <<dlArgs, slept, nonDownloadVars>>

\* lines 104-106: asyncio.sleep(delay) returns, the loop goes on or ends
DownloadSleep ==
  /\ dlpc = "sleep"
  /\ slept' = Append(slept, BackoffDelay(attempt))
  /\ attempt' = attempt + 1
  /\ IF attempt + 1 < max_retries
     THEN /\ dlpc' = "get"
          /\ UNCHANGED dlResult
     ELSE /\ dlResult' = [returned |-> TRUE, none |-> TRUE, content |-> ""]
          /\ dlpc' = "done"
  /\ UNCHANGED <<dlArgs, dlLog, nonDownloadVars>>

NextDownload ==
  \/ DownloadGet
  \/ DownloadSleep

SpecDownload == InitDownload /\ [][NextDownload]_vars

\* the event loop runs a coroutine that can run: nothing in the loop
\* waits on anything but the GET and the sleep, both of which return
FairDownload == SpecDownload /\ WF_vars(NextDownload)


\* ------------------------- sync and the routes on banana_prompts
InitBanana ==
  /\ IdleGenerate
  /\ IdleBuild
  /\ IdleDownload
  /\ IdleProviders
  /\ prompts = <<>>
  /\ syncLogs = <<>>
  /\ spc = "idle"
  /\ runs = 0
  /\ syncData = <<>>
  /\ syncRet = NoSyncResult
  /\ fetchCalls = 0
  /\ enabled \in BOOLEAN
  /\ lastOp = NoOp

\* sync, lines 142-157: up to the await of _fetch_github_data
SyncStart ==
  /\ spc = "idle"
  /\ runs < MaxRuns
  /\ runs' = runs + 1
  /\ IF ~SyncAllowed(enabled)
     THEN /\ syncRet' = SyncResult(FALSE, 0)
          /\ lastOp' = Op("sync_return", 0, 0)
          /\ UNCHANGED <<syncLogs, spc, fetchCalls>>
     ELSE /\ syncLogs' = Append(syncLogs, SyncLogRow("pending", 0))
          /\ spc' = "fetching"
          /\ fetchCalls' = fetchCalls + 1
          /\ syncRet' = NoSyncResult
          /\ lastOp' = Op("sync_start", 0, 0)
  /\ UNCHANGED <<prompts, syncData, enabled, nonBananaVars>>

\* sync, lines 157-241: from the return of _fetch_github_data to the return
SyncFetched ==
  /\ spc = "fetching"
  /\ spc' = "idle"
  /\ lastOp' = Op("sync_return", 0, 0)
  /\ \E r \in FetchResults :
       /\ syncData' = r.data
       /\ IF r.kind # "data"
          THEN /\ syncLogs' = SetLastLog(syncLogs, "failed", 0)
               /\ syncRet' = SyncResult(FALSE, 0)
               /\ UNCHANGED prompts
          ELSE \E existing_titles \in ExistingTitleMaps(prompts) :
                 LET new == NewItems(r.data, existing_titles)
                     stale == StaleIds(existing_titles, JsonTitles(r.data))
                     total_count == TotalCount(existing_titles, Cardinality(stale), Len(new))
                 IN  /\ MaxOf(DOMAIN prompts) + Len(new) <= MaxId
                     /\ IF LoopRaises(r.data)
                        THEN /\ prompts' = Inserted(prompts, new)
                             /\ syncLogs' = SetLastLog(syncLogs, "failed", 0)
                             /\ syncRet' = SyncResult(FALSE, 0)
                        ELSE /\ prompts' = Removed(Inserted(prompts, new), stale)
                             /\ syncLogs' = SetLastLog(syncLogs, "success", total_count)
                             /\ syncRet' = SyncResult(TRUE, total_count)
  /\ UNCHANGED <<runs, fetchCalls, enabled, nonBananaVars>>

\* routes/banana.py lines 59-86
create_prompt ==
  /\ MaxOf(DOMAIN prompts) + 1 <= MaxId
  /\ \E title \in Titles, image \in Images :
       prompts' = prompts @@
                  (MaxOf(DOMAIN prompts) + 1 :> PromptRow(title, image, "custom"))
  /\ lastOp' = Op("create", MaxOf(DOMAIN prompts) + 1, 200)
  /\ UNCHANGED <<syncLogs, spc, runs, syncData, syncRet, fetchCalls, enabled, nonBananaVars>>

\* routes/banana.py lines 89-116
update_prompt ==
  /\ \E prompt_id \in 1..MaxId, data \in PromptUpdates :
       IF prompt_id \notin DOMAIN prompts
       THEN /\ lastOp' = Op("put", prompt_id, 404)
            /\ UNCHANGED prompts
       ELSE IF ~MayEdit(prompts[prompt_id].source)
       THEN /\ lastOp' = Op("put", prompt_id, 403)
            /\ UNCHANGED prompts
       ELSE /\ prompts' = [prompts EXCEPT ![prompt_id] = ApplyUpdate(@, data)]
            /\ lastOp' = Op("put", prompt_id, 200)
  /\ UNCHANGED <<syncLogs, spc, runs, syncData, syncRet, fetchCalls, enabled, nonBananaVars>>

\* routes/banana.py lines 119-140
update_prompt_image ==
  /\ \E prompt_id \in 1..MaxId, image \in Images \ {None} :
       IF prompt_id \notin DOMAIN prompts
       THEN /\ lastOp' = Op("patch", prompt_id, 404)
            /\ UNCHANGED prompts
       ELSE /\ prompts' = [prompts EXCEPT ![prompt_id].image = image]
            /\ lastOp' = Op("patch", prompt_id, 200)
  /\ UNCHANGED <<syncLogs, spc, runs, syncData, syncRet, fetchCalls, enabled, nonBananaVars>>

\* routes/banana.py lines 143-165
delete_prompt ==
  /\ \E prompt_id \in 1..MaxId :
       IF prompt_id \notin DOMAIN prompts
       THEN /\ lastOp' = Op("delete", prompt_id, 404)
            /\ UNCHANGED prompts
       ELSE IF ~MayEdit(prompts[prompt_id].source)
       THEN /\ lastOp' = Op("delete", prompt_id, 403)
            /\ UNCHANGED prompts
       ELSE /\ prompts' = Removed(prompts, {prompt_id})
            /\ lastOp' = Op("delete", prompt_id, 200)
  /\ UNCHANGED <<syncLogs, spc, runs, syncData, syncRet, fetchCalls, enabled, nonBananaVars>>

NextBanana ==
  \/ SyncStart
  \/ SyncFetched
  \/ create_prompt
  \/ update_prompt
  \/ update_prompt_image
  \/ delete_prompt

SpecBanana == InitBanana /\ [][NextBanana]_vars

\* ----------------------------- the routes on providers and xhs_providers
InitProviders ==
  /\ IdleGenerate
  /\ IdleBuild
  /\ IdleDownload
  /\ IdleBanana
  /\ providers = <<>>
  /\ xhsProviders = <<>>
  /\ answer = NoAnswer

\* routes/providers.py lines 23-45
create_provider ==
  /\ MaxOf(DOMAIN providers) + 1 <= MaxProviders
  /\ \E name \in ProviderNames, type \in ProviderTypes :
       IF NameTaken(providers, name, 0)
       THEN /\ answer' = Op("create", 0, 400)
            /\ UNCHANGED providers
       ELSE /\ providers' = providers @@
                  (MaxOf(DOMAIN providers) + 1 :> [name |-> name, type |-> type])
            /\ answer' = Op("create", MaxOf(DOMAIN providers) + 1, 201)
  /\ UNCHANGED <<xhsProviders, nonProviderVars>>

\* routes/providers.py lines 48-68
update_provider ==
  /\ \E provider_id \in 1..MaxProviders, data \in ProviderUpdates :
       IF provider_id \notin DOMAIN providers
       THEN /\ answer' = Op("update", provider_id, 404)
            /\ UNCHANGED providers
       ELSE /\ providers' = [providers EXCEPT ![provider_id] = ApplyProviderUpdate(@, data)]
            /\ answer' = Op("update", provider_id, 200)
  /\ UNCHANGED <<xhsProviders, nonProviderVars>>

\* routes/providers.py lines 71-84
delete_provider ==
  /\ \E provider_id \in 1..MaxProviders :
       IF provider_id \notin DOMAIN providers
       THEN /\ answer' = Op("delete", provider_id, 404)
            /\ UNCHANGED providers
       ELSE /\ providers' = Removed(providers, {provider_id})
            /\ answer' = Op("delete", provider_id, 200)
  /\ UNCHANGED <<xhsProviders, nonProviderVars>>

\* routes/xhs_providers.py lines 23-44
create_xhs_provider ==
  /\ MaxOf(DOMAIN xhsProviders) + 1 <= MaxProviders
  /\ \E name \in ProviderNames :
       IF NameTaken(xhsProviders, name, 0)
       THEN /\ answer' = Op("xhs_create", 0, 400)
            /\ UNCHANGED xhsProviders
       ELSE /\ xhsProviders' = xhsProviders @@
                  (MaxOf(DOMAIN xhsProviders) + 1 :> [name |-> name])
            /\ answer' = Op("xhs_create", MaxOf(DOMAIN xhsProviders) + 1, 201)
  /\ UNCHANGED <<providers, nonProviderVars>>

\* routes/xhs_providers.py lines 47-76
update_xhs_provider ==
  /\ \E provider_id \in 1..MaxProviders, name \in ProviderNames \cup {None} :
       IF provider_id \notin DOMAIN xhsProviders
       THEN /\ answer' = Op("xhs_update", provider_id, 404)
            /\ UNCHANGED xhsProviders
       ELSE IF name # None /\ NameTaken(xhsProviders, name, provider_id)
       THEN /\ answer' = Op("xhs_update", provider_id, 400)
            /\ UNCHANGED xhsProviders
       ELSE /\ xhsProviders' = [xhsProviders EXCEPT ![provider_id].name =
                                  IF name # None THEN name ELSE @]
            /\ answer' = Op("xhs_update", provider_id, 200)
  /\ UNCHANGED <<providers, nonProviderVars>>

\* routes/xhs_providers.py lines 79-92
delete_xhs_provider ==
  /\ \E provider_id \in 1..MaxProviders :
       IF provider_id \notin DOMAIN xhsProviders
       THEN /\ answer' = Op("xhs_delete", provider_id, 404)
            /\ UNCHANGED xhsProviders
       ELSE /\ xhsProviders' = Removed(xhsProviders, {provider_id})
            /\ answer' = Op("xhs_delete", provider_id, 200)
  /\ UNCHANGED <<providers, nonProviderVars>>

NextProviders ==
  \/ create_provider
  \/ update_provider
  \/ delete_provider
  \/ create_xhs_provider
  \/ update_xhs_provider
  \/ delete_xhs_provider

SpecProviders == InitProviders /\ [][NextProviders]_vars

\* ------------------------------------------------------------- oracles
\* what the upstream put into the content, read off its segments
MarkupKinds == {"D1", "D2", "H1", "H2"}
UrlOfSeg(k) == CASE k = "D1" -> D1 [] k = "D2" -> D2 [] k = "H1" -> H1 [] k = "H2" -> H2

RECURSIVE SegUrls(_, _)
SegUrls(segs, kinds) ==
  IF segs = <<>> THEN <<>>
  ELSE (IF Head(segs) \in kinds THEN <<UrlOfSeg(Head(segs))>> ELSE <<>>)
         \o SegUrls(Tail(segs), kinds)

DataSegUrls(segs) == SegUrls(segs, {"D1", "D2"})
HttpSegUrls(segs) == SegUrls(segs, {"H1", "H2"})

IsProse(k) == k \notin MarkupKinds
ProseOnly(segs) == Flatten(SelectSeq(segs, IsProse))

Succeeded(outcome) == outcome.kind = "response" /\ outcome.status = 200

\* the base64 payload of a data URI built by fetch_image_as_base64
ImagePayload(img) ==
  LET k == Min({n \in 1..Len(img.base64) : img.base64[n] = ";base64,"})
  IN SubSeq(img.base64, k + 1, Len(img.base64))

\* payloads expected of the remote URLs hs given the outcomes log of their GETs
RECURSIVE SucceededPayloads(_, _)
SucceededPayloads(hs, log) ==
  IF hs = <<>> \/ log = <<>> THEN <<>>
  ELSE (IF Succeeded(Head(log)) THEN <<B64Encode(ResourceAt(<<Head(hs)>>))>> ELSE <<>>)
         \o SucceededPayloads(Tail(hs), Tail(log))

\* process_openai_response has returned for a body that has a content string
OpenAIDone ==
  pc = "done" /\ normalizer = "openai" /\ result.returned /\ response.body.list

Is2xx(status) == status \in 200..299

\* -------------------------------------------------------------- claims
\* C1: when every remote fetch succeeds, process_openai_response returns
\* exactly N+M images: first the N data-URI images in document order, then
\* the M remote-URL images in document order.
C1_DataBatchThenRemoteBatch ==
  (OpenAIDone /\ \A n \in 1..Len(fetchLog) : Succeeded(fetchLog[n])) =>
    LET ds == DataSegUrls(response.body.segs)
        hs == HttpSegUrls(response.body.segs)
    IN /\ Len(result.images) = Len(ds) + Len(hs)
       /\ \A i \in 1..Len(ds) : result.images[i].base64 = <<ds[i]>>
       /\ \A i \in 1..Len(hs) :
            ImagePayload(result.images[Len(ds) + i]) = B64Encode(ResourceAt(<<hs[i]>>))

C1_Witness ==
  /\ OpenAIDone
  /\ response.body.segs = <<"H2", "D1", "H1">>
  /\ \A n \in 1..Len(fetchLog) : Succeeded(fetchLog[n])
  /\ Len(result.images) = 3

\* C2: the output text of process_openai_response is the content with just
\* the spans of the image markups removed, then trimmed; prose between two
\* image markups is kept.  Stated for contents made of prose, white space
\* and complete image markups.
C2_TextIsContentWithoutMarkup ==
  (OpenAIDone /\ \A n \in 1..Len(response.body.segs) : response.body.segs[n] # "open") =>
    result.text = Strip(ProseOnly(response.body.segs))

\* C3: a failed remote fetch (non-200 answer or exception) raises nothing and
\* omits only that image: the result holds every data-URI image and then
\* every successfully fetched remote image, both in document order.
C3_FailedFetchOmitsOneImage ==
  /\ normalizer = "openai" => raised = NotRaised
  /\ OpenAIDone =>
       LET ds == DataSegUrls(response.body.segs)
           ps == SucceededPayloads(HttpSegUrls(response.body.segs), fetchLog)
       IN /\ Len(fetchLog) = Len(HttpSegUrls(response.body.segs))
          /\ Len(result.images) = Len(ds) + Len(ps)
          /\ \A i \in 1..Len(ds) : result.images[i].base64 = <<ds[i]>>
          /\ \A i \in 1..Len(ps) : ImagePayload(result.images[Len(ds) + i]) = ps[i]

C3_Witness ==
  /\ OpenAIDone
  /\ response.body.segs = <<"H1", "D1", "H2">>
  /\ fetchLog[1].kind = "exception"
  /\ Succeeded(fetchLog[2])
  /\ Len(result.images) = 2

\* C4: the handler streams if and only if settings.streaming is true and the
\* provider is OpenAI-compatible; otherwise the body is buffered and, once
\* decoded, handed to the normalizer of the provider's kind.  A Gemini
\* provider never streams.
C4_StreamIffOpenAIAndStreaming ==
  /\ provider # "none" =>
       /\ mode = "stream" <=> (request.streaming /\ provider = "openai")
       /\ mode = "buffered" <=> ~(request.streaming /\ provider = "openai")
  /\ provider = "gemini" => upstream = "none" /\ delivered = <<>>
  /\ mode = "stream" => normalizer = "none"
  /\ normalizer # "none" => mode = "buffered" /\ normalizer = provider
  /\ (mode = "buffered" /\ transport = "response" /\ response.status = 200
        /\ response.body.json) => normalizer = provider

C4_Witness ==
  /\ provider = "gemini"
  /\ request.streaming
  /\ normalizer = "gemini"
  /\ result.returned

\* C5: a request whose providerId resolves to no provider ends at once with
\* ProviderNotFound (404), and no upstream POST or image GET is made.
C5_UnknownProviderNoUpstreamCall ==
  (request.provider_id \notin DOMAIN ProviderTable /\ pc # "resolve") =>
    /\ pc = "done"
    /\ raised.class = "ProviderNotFound"
    /\ raised.status_code = 404
    /\ transport = "none"
    /\ postCount = 0
    /\ getCount = <<>>
    /\ upstream = "none"

C5_Witness ==
  /\ request.provider_id = 3
  /\ pc = "done"
  /\ raised.status_code = 404

\* C6: in buffered mode a non-2xx upstream status yields UpstreamHTTPError
\* with the upstream status and the raw body, and a 2xx status is never
\* classified as UpstreamHTTPError.
C6_Only_Non2xx_Is_HTTPError ==
  (mode = "buffered" /\ transport = "response") =>
    /\ ~Is2xx(response.status) =>
         /\ raised.class = "UpstreamHTTPError"
         /\ raised.status_code = response.status
         /\ raised.body = response.body
    /\ Is2xx(response.status) => raised.class # "UpstreamHTTPError"

\* C7: in buffered mode a success status with an undecodable body ends with
\* the classified error MalformedUpstreamPayload.
C7_MalformedBodyIsClassified ==
  (mode = "buffered" /\ transport = "response" /\ response.status = 200
     /\ ~response.body.json) =>
    raised.class = "MalformedUpstreamPayload"

\* C8: in buffered mode a timeout of the POST surfaces as UpstreamTimeout
\* (504), a connection failure as UpstreamUnreachable (502), never the one
\* for the other, and an UpstreamHTTPError is not turned into either.
C8_TimeoutUnreachableDistinct ==
  mode = "buffered" =>
    /\ transport = "TimeoutException" =>
         raised.class = "UpstreamTimeout" /\ raised.status_code = 504
    /\ transport = "ConnectError" =>
         raised.class = "UpstreamUnreachable" /\ raised.status_code = 502
    /\ raised.class = "UpstreamTimeout" => transport = "TimeoutException"
    /\ raised.class = "UpstreamUnreachable" => transport = "ConnectError"
    /\ (transport = "response" /\ ~Is2xx(response.status)) =>
         raised.class = "UpstreamHTTPError" /\ raised.status_code = response.status

C8_Witness ==
  /\ mode = "buffered"
  /\ pc = "done"
  /\ transport = "TimeoutException"
  /\ raised.status_code = 504

\* C9: on a streaming call a non-2xx upstream status is classified as
\* UpstreamHTTPError and not relayed as an event stream, and a timeout or
\* connection failure when the call is opened is classified as
\* UpstreamTimeout or UpstreamUnreachable.
C9_StreamErrorsClassified ==
  mode = "stream" =>
    /\ (transport = "response" /\ ~Is2xx(response.status)) =>
         /\ raised.class = "UpstreamHTTPError"
         /\ raised.status_code = response.status
         /\ delivered = <<>>
    /\ transport = "TimeoutException" => raised.class = "UpstreamTimeout"
    /\ transport = "ConnectError" => raised.class = "UpstreamUnreachable"

\* C10: no retries: at most one upstream POST per request and at most one
\* GET per remote-URL image match, whatever the outcome.
C10_NoRetries ==
  /\ postCount <= 1
  /\ \A n \in 1..Len(getCount) : getCount[n] <= 1
  /\ Len(fetchLog) <= Len(getCount)
  /\ (normalizer = "openai" /\ response.body.list) =>
       Len(getCount) = Len(HttpSegUrls(response.body.segs))
  /\ pc = "done" => (transport # "none" <=> postCount = 1)

C10_Witness ==
  /\ pc = "done"
  /\ postCount = 1
  /\ Len(getCount) = 2
  /\ getCount[1] = 1 /\ getCount[2] = 1
  /\ ~Succeeded(fetchLog[1]) /\ ~Succeeded(fetchLog[2])

\* ---------------------------------------------------- claims C11 - C20
IsPrefix(a, b) == Len(a) <= Len(b) /\ a = SubSeq(b, 1, Len(a))

C12_DeliveredIsPrefixOfReceived ==
  mode = "stream" =>
    /\ IsPrefix(delivered, received)
    /\ Len(held) <= 1
    /\ Len(received) - Len(delivered) <= 1
    /\ pc = "yield" => received = delivered \o held
    /\ (pc = "relay" /\ caller = "connected") => received = delivered
    /\ ~result.returned
    /\ raised.exc # "HTTPException"

C12_Witness ==
  /\ mode = "stream"
  /\ pc = "done"
  /\ raised.exc = "ReadError"
  /\ upstream = "closed"
  /\ Len(delivered) = 1
  /\ incoming # <<>>

HasTextKind(k) == GeminiPart(k).has_text
HasInlineKind(k) == GeminiPart(k).has_inline

\* process_gemini_response has returned for a body that has a parts array
GeminiDone ==
  pc = "done" /\ normalizer = "gemini" /\ result.returned /\ response.body.list

\* C13: process_gemini_response takes the parts in array order: the text is
\* the text fragments in order, the images are the inline_data parts in
\* order; every image's base64 starts with a data-URI prefix (built from its
\* mime type when the payload has none) and its mimeType is populated,
\* image/jpeg by default.
C13_GeminiPartsInArrayOrder ==
  GeminiDone =>
    LET ts == SelectSeq(response.body.parts, HasTextKind)
        is == SelectSeq(response.body.parts, HasInlineKind)
    IN /\ Len(result.text) = Len(ts)
       /\ \A i \in 1..Len(ts) : <<result.text[i]>> = GeminiPart(ts[i]).text
       /\ Len(result.images) = Len(is)
       /\ \A i \in 1..Len(is) :
            LET img == result.images[i]
                part == GeminiPart(is[i])
            IN /\ img.base64 # <<>> /\ Head(img.base64) = "data:"
               /\ ImagePayload(img) = RawData
               /\ img.mimeType # <<>>
               /\ img.mimeType = IF part.has_mime THEN part.mime_type
                                 ELSE <<"image/jpeg">>
               /\ Head(part.data) # "data:" =>
                    img.base64 = <<"data:">> \o img.mimeType \o <<";base64,">> \o part.data

C13_Witness ==
  /\ GeminiDone
  /\ response.body.parts = <<"ta", "Y", "tb">>
  /\ result.text = <<"a", "b">>
  /\ result.images = <<[base64 |-> <<"data:", "image/jpeg", ";base64,", "QUJD">>,
                        mimeType |-> <<"image/jpeg">>]>>

\* C17: when choices (OpenAI) or candidates (Gemini) is absent or empty the
\* normalizer returns exactly {text: "", images: []}, raises nothing and
\* fetches no image.
C17_EmptyListGivesEmptyResult ==
  (mode = "buffered" /\ transport = "response" /\ response.status = 200
     /\ response.body.json /\ ~response.body.list) =>
    /\ pc = "done"
    /\ normalizer = provider
    /\ result = [returned |-> TRUE, text |-> <<>>, images |-> <<>>]
    /\ raised = NotRaised
    /\ getCount = <<>>
    /\ fetchLog = <<>>

C17_Witness ==
  /\ provider = "openai"
  /\ transport = "response"
  /\ response.status = 200
  /\ response.body.json
  /\ ~response.body.list
  /\ result.returned

\* the mime type declared in a data URI built by fetch_image_as_base64
DeclaredMime(img) ==
  LET k == Min({n \in 1..Len(img.base64) : img.base64[n] = ";base64,"})
  IN SubSeq(img.base64, 2, k - 1)

\* mime types expected of the remote images, from the headers of their GETs
RECURSIVE HeaderMimes(_)
HeaderMimes(log) ==
  IF log = <<>> THEN <<>>
  ELSE (IF Succeeded(Head(log))
        THEN <<IF ~Head(log).has_content_type THEN <<"image/jpeg">>
               ELSE IF Head(Head(log).content_type) = "image/png" THEN <<"image/png">>
               ELSE <<"image/gif">>>>
        ELSE <<>>)
         \o HeaderMimes(Tail(log))

\* C18: the mimeType of every remote image fetched successfully is the mime
\* type of the content-type header of its GET (image/jpeg when the header is
\* missing) and so equals the mime type declared in its own data URI.
C18_FetchedMimeFromHeader ==
  OpenAIDone =>
    LET n == Len(DataSegUrls(response.body.segs))
        ms == HeaderMimes(fetchLog)
    IN \A i \in 1..Len(ms) :
         /\ result.images[n + i].mimeType = ms[i]
         /\ result.images[n + i].mimeType = DeclaredMime(result.images[n + i])

\* C19: content without image markup gives images == [] and the content
\* trimmed as text, and no remote fetch is made.
C19_NoMarkupTextIsTrimmedContent ==
  (OpenAIDone /\ \A n \in 1..Len(response.body.segs) :
                   response.body.segs[n] \notin MarkupKinds) =>
    /\ result.images = <<>>
    /\ result.text = Strip(Flatten(response.body.segs))
    /\ getCount = <<>>
    /\ fetchLog = <<>>

C19_Witness ==
  /\ OpenAIDone
  /\ response.body.segs = <<"sp", "See", "nl">>
  /\ result.text = <<"See">>
  /\ result.images = <<>>

\* ------------------------------------------------------------ C14 - C16
Built == bpc \in {"openai", "gemini"}

\* the image a part of the final turn carries
ImageOf(part) == part.data[Len(part.data)]

\* C14: the OpenAI payload's size is 1024x1024 for 1K, 2048x2048 for 2K,
\* 4096x4096 for 4K and 1024x1024 for any other or absent resolution; the
\* Gemini payload's imageSize is the resolution string that was given.
C14_SizeByResolution ==
  /\ bpc = "openai" =>
       payload.size = (CASE breq.has_resolution /\ breq.resolution = "1K" -> "1024x1024"
                         [] breq.has_resolution /\ breq.resolution = "2K" -> "2048x2048"
                         [] breq.has_resolution /\ breq.resolution = "4K" -> "4096x4096"
                         [] OTHER -> "1024x1024")
  /\ bpc = "gemini" /\ breq.has_resolution => payload.size = breq.resolution

C14_Witness ==
  /\ bpc = "openai"
  /\ breq.has_resolution
  /\ breq.resolution = "4K"
  /\ payload.size = "4096x4096"

\* C15: in both payloads the aspect ratio key is absent when the setting is
\* "auto", empty or absent, and present with the value verbatim otherwise.
C15_AspectRatioOmittedOrVerbatim ==
  Built =>
    LET given == /\ breq.has_aspect_ratio
                 /\ breq.aspect_ratio # ""
                 /\ breq.aspect_ratio # "auto"
    IN  /\ payload.has_aspect_ratio <=> given
        /\ given => payload.aspect_ratio = breq.aspect_ratio

C15_Witness ==
  /\ bpc = "gemini"
  /\ breq.has_aspect_ratio
  /\ breq.aspect_ratio = "16:9"
  /\ payload.has_aspect_ratio
  /\ payload.aspect_ratio = "16:9"

\* C16: in both payloads the message list is every history turn in input
\* order, each carrying one text part and no image, then exactly one final
\* user turn whose parts are the prompt text (the placeholder when the
\* prompt is empty or absent), the context images in input order, and the
\* current images in input order.
C16_HistoryThenOneCurrentTurn ==
  Built =>
    LET h == breq.history_messages
        n == Len(h)
        m == payload.messages
        nc == Len(breq.context_images)
        ni == Len(breq.images)
    IN  /\ Len(m) = n + 1
        /\ \A i \in 1..n :
             /\ Len(m[i].content) = 1
             /\ m[i].content[1].type = "text"
             /\ m[i].content[1].text = h[i].content
        /\ m[n + 1].role = "user"
        /\ Len(m[n + 1].content) = 1 + nc + ni
        /\ m[n + 1].content[1].type = "text"
        /\ m[n + 1].content[1].text =
             (IF breq.has_prompt /\ breq.prompt # <<>>
              THEN breq.prompt ELSE <<"Generate image">>)
        /\ \A j \in 1..nc :
             /\ m[n + 1].content[1 + j].type # "text"
             /\ ImageOf(m[n + 1].content[1 + j]) = breq.context_images[j]
        /\ \A j \in 1..ni :
             /\ m[n + 1].content[1 + nc + j].type # "text"
             /\ ImageOf(m[n + 1].content[1 + nc + j]) = breq.images[j]

C16_Witness ==
  /\ bpc = "openai"
  /\ ~breq.has_prompt
  /\ Len(breq.history_messages) = 2
  /\ breq.context_images = <<"c2", "c1">>
  /\ breq.images = <<"i1", "i2">>
  /\ Len(payload.messages) = 3
  /\ payload.messages[3].content[1].text = <<"Generate image">>

\* ------------------------------------------------------------------ C20
AttemptFailed(i) == ~DownloadOk(dlLog[i].outcome)

DownloadBounded ==
  /\ Len(dlLog) <= max_retries
  /\ \A i \in 1..(Len(dlLog) - 1) : AttemptFailed(i)

DownloadReturns ==
  /\ dlResult.returned /\ ~dlResult.none =>
       /\ Len(dlLog) >= 1
       /\ ~AttemptFailed(Len(dlLog))
       /\ dlResult.content = dlLog[Len(dlLog)].outcome.content
  /\ dlResult.returned /\ dlResult.none =>
       /\ Len(dlLog) = max_retries
       /\ \A i \in 1..Len(dlLog) : AttemptFailed(i)
  /\ Len(dlLog) = max_retries /\ AttemptFailed(max_retries) =>
       dlResult.returned /\ dlResult.none
  /\ dlpc = "done" <=> dlResult.returned

DownloadWaits ==
  /\ \A k \in 1..Len(slept) : slept[k] = base_delay * (2 ^ (k - 1))
  /\ Len(slept) >= 1 => slept[1] = 1
  /\ Len(slept) >= 2 => slept[2] = 2
  /\ Len(slept) <= max_retries - 1
  /\ dlpc = "get" => Len(slept) = Len(dlLog)
  /\ dlpc \in {"sleep", "done"} => Len(slept) = Len(dlLog) - 1

\* C20: _download_with_retry makes at most 3 GETs; it returns the body of
\* the first successful one and makes no GET after it; after failed
\* attempt k it waits base_delay * 2^k seconds (1, then 2) before the next
\* one, does not wait after the last failed attempt, returns None once all
\* 3 have failed, and always terminates.
C20_BoundedBackoffTerminates ==
  /\ [](DownloadBounded /\ DownloadReturns /\ DownloadWaits)
  /\ <>(dlpc = "done")

C20_Witness ==
  /\ dlpc = "done"
  /\ dlResult.returned
  /\ dlResult.none
  /\ Len(dlLog) = 3
  /\ slept = <<1, 2>>

\* ------------------------------------------------------------ C21 - C25
GithubTitles(table) == {table[id].title : id \in GithubIds(table)}
CustomIds(table) == DOMAIN table \ GithubIds(table)

\* the step is a run of sync that returns success
SyncSucceeds == lastOp'.op = "sync_return" /\ syncRet'.success

\* C21: after a sync run that succeeds the titles of the github prompts are
\* the titles of the fetched JSON: a github prompt whose title is still in
\* the JSON is kept with every field unchanged, one whose title is gone is
\* deleted, each new title is inserted with source github and no image,
\* and no custom prompt is added, changed or deleted.
C21_SyncMirrorsJson ==
  [][SyncSucceeds =>
       LET json == JsonTitles(syncData')
       IN  /\ GithubTitles(prompts') = json
           /\ \A id \in GithubIds(prompts) :
                IF prompts[id].title \in json
                THEN id \in DOMAIN prompts' /\ prompts'[id] = prompts[id]
                ELSE id \notin DOMAIN prompts'
           /\ \A id \in GithubIds(prompts') \ DOMAIN prompts :
                /\ prompts'[id].image = None
                /\ prompts'[id].title \in json \ GithubTitles(prompts)
           /\ CustomIds(prompts') = CustomIds(prompts)
           /\ \A id \in CustomIds(prompts) : prompts'[id] = prompts[id]]_vars

\* C22: PUT and DELETE on a github prompt answer 403 and change nothing, on
\* an id that does not exist they answer 404 and change nothing; PATCH of
\* the image is the only route that changes a github prompt, and it
\* changes nothing but the image.
C22_OnlyCustomEditable ==
  [][/\ lastOp'.op \in {"put", "delete"} =>
          /\ lastOp'.id \notin DOMAIN prompts =>
               lastOp'.code = 404 /\ prompts' = prompts
          /\ lastOp'.id \in GithubIds(prompts) =>
               lastOp'.code = 403 /\ prompts' = prompts
     /\ lastOp'.op \in {"create", "put", "delete"} =>
          \A g \in GithubIds(prompts) :
            g \in DOMAIN prompts' /\ prompts'[g] = prompts[g]
     /\ lastOp'.op = "patch" =>
          \A g \in GithubIds(prompts) :
            /\ g \in DOMAIN prompts'
            /\ prompts'[g] = [prompts[g] EXCEPT !.image = prompts'[g].image]
            /\ g # lastOp'.id => prompts'[g] = prompts[g]]_vars

C22_Witness ==
  \E id \in DOMAIN prompts :
    /\ lastOp = Op("put", id, 403)
    /\ prompts[id].source = "github"
    /\ prompts[id].image = "img"

\* C23: after any sequence of create, update and delete on providers no
\* two Provider rows have the same name.
C23_ProviderNamesUnique ==
  \A i, j \in DOMAIN providers :
    i # j => providers[i].name # providers[j].name

\* C24: after every successful sync run the count in the sync log and the
\* count returned are the number of github prompts in the database.
C24_CountIsGithubRows ==
  lastOp.op = "sync_return" /\ syncRet.success =>
    /\ syncRet.count = Cardinality(GithubIds(prompts))
    /\ syncLogs[Len(syncLogs)].count = Cardinality(GithubIds(prompts))

\* C25: a run started while sync is enabled creates exactly one log row,
\* pending while the run is under way and success or failed once it has
\* returned, with the returned success flag true exactly for success; a
\* run started while sync is disabled creates no row and fetches nothing.
C25_LogRowPerEnabledRun ==
  /\ enabled =>
       /\ Len(syncLogs) = runs
       /\ \A i \in 1..Len(syncLogs) :
            /\ syncLogs[i].status \in {"pending", "success", "failed"}
            /\ syncLogs[i].status = "pending" <=> (i = Len(syncLogs) /\ spc = "fetching")
       /\ syncRet.returned =>
            (syncRet.success <=> syncLogs[Len(syncLogs)].status = "success")
  /\ ~enabled =>
       /\ syncLogs = <<>>
       /\ fetchCalls = 0
       /\ spc = "idle"

C25_Witness ==
  /\ enabled
  /\ runs = 2
  /\ spc = "idle"
  /\ Len(syncLogs) = 2
  /\ syncLogs[1].status = "failed"
  /\ syncLogs[2].status = "success"
  /\ syncRet.returned
  /\ syncRet.success

====
